---- MODULE Spec2Model ----
(***************************************************************************)
(* A model of src/src/objects-tasks.js: the ticket seller (sellTickets),   *)
(* the CSS selector builder (cssSelectorBuilder), compareObjects and       *)
(* mergeObjects.  Each of the four has a specification of its own; the     *)
(* variables of the other three stay at their initial values.              *)
(***************************************************************************)
EXTENDS Integers, Sequences, FiniteSets, TLC

VARIABLES
  \* sellTickets
  queue,      \* the argument: the bills of the customers, in order
  i,          \* the loop index (1-based here, 0-based in the source)
  payments,   \* the till: [b25, b50, b100]
  rest,       \* the change still owed to the customer paying with 100
  pc,         \* the position in sellTickets
  ret         \* the returned value, "none" until the function returns

tvars == <<queue, i, payments, rest, pc, ret>>

VARIABLES
  \* cssSelectorBuilder: the heap of builder objects
  sel,        \* object -> the array its field `selectors` refers to
  arrs,       \* array -> its elements, the fragments {selector, type}
  last,       \* the last call: its receiver, arguments and outcome
  \* history of the calls, for the statements about chains
  used,       \* the objects a method has been invoked on
  hist        \* object -> the step calls that built it, and whether it
              \* is a chain: built from the facade by step calls only,
              \* each instance on the way used once

bvars == <<sel, arrs, last, used, hist>>

VARIABLES
  \* compareObjects
  objA, objB, \* two objects
  cmp         \* the calls made so far: <<x, y>> -> compareObjects(x, y)

cvars == <<objA, objB, cmp>>

VARIABLES
  \* mergeObjects
  objects,    \* the argument: a list of objects
  mergedObj,  \* the object being filled
  mi,         \* the element of objects the outer forEach is at
  mpc,        \* the position in mergeObjects
  mret        \* the returned object, once mpc is "done"

mvars == <<objects, mergedObj, mi, mpc, mret>>

vars == <<tvars, bvars, cvars, mvars>>

-----------------------------------------------------------------------------
(* Bounds *)

\* the longest queue of customers
MaxQueue == 7

\* the builder objects created besides the facade
MaxObjects == 2

\* the numbers in the objects compared are 1..MaxNumber
MaxNumber == 2

\* the longest list of objects merged
MaxList == 3

\* the numbers in the objects merged are -MaxAbs..MaxAbs
MaxAbs == 1

RECURSIVE SeqsUpTo(_, _)
\* all sequences over S of length at most n
SeqsUpTo(S, n) ==
  IF n = 0 THEN {<<>>}
  ELSE LET shorter == SeqsUpTo(S, n - 1)
       IN  shorter \cup {Append(s, x) : s \in {t \in shorter : Len(t) = n - 1}, x \in S}

-----------------------------------------------------------------------------
(* cssSelectorBuilder, objects-tasks.js 382-474 *)

\* the values handed to the step methods, and the combinators
Values == {"a", "b"}
Combinators == {"+"}

\* the object cssSelectorBuilder itself; the objects the methods return are
\* numbered from 1
Facade == 0

StepMethods == {"element", "id", "class", "attr", "pseudoClass", "pseudoElement"}

\* order: ['element', 'id', 'class', 'attr', 'pseudoclass', 'pseudoelement']
order == <<"element", "id", "class", "attr", "pseudoclass", "pseudoelement">>

Objects == DOMAIN sel

\* this.selectors, read through the reference
Frags(o) == arrs[sel[o]]

NoCall ==
  [op |-> "none", recv |-> Facade, value |-> "", before |-> <<>>,
   outcome |-> "none", result |-> -1, str |-> <<>>, first |-> FALSE,
   s1 |-> <<>>, s2 |-> <<>>, nobj |-> 1]

\* checkOrder, had it read order.slice(n + 1)
checkOrderOffByOne(frs, n) ==
  /\ Len(frs) # 0
  /\ \E k \in (n + 2)..Len(order) : \E j \in DOMAIN frs : frs[j].type = order[k]

\* checkOrder(n) throws: this.selectors is not empty and one of
\* order.slice(n) is the type of a fragment in it
checkOrder(frs, n) ==
  /\ Len(frs) # 0
  /\ \E k \in (n + 1)..Len(order) : \E j \in DOMAIN frs : frs[j].type = order[k]

\* checkType, had it read .length > 1
checkTypeAllowsTwo(frs, type) ==
  Cardinality({j \in DOMAIN frs : frs[j].type = type}) > 1

\* checkType(type) throws: this.selectors.filter(e => e.type === type).length >= 1
checkType(frs, type) ==
  Cardinality({j \in DOMAIN frs : frs[j].type = type}) >= 1

\* the fragments the step methods push; a text is the sequence of its
\* pieces, and the template literals put the pieces side by side
elementFragment(value) == [selector |-> <<value>>, type |-> "element"]
\* (the id fragment, had the template been `${value}`)
idFragmentNoPrefix(value) == [selector |-> <<value>>, type |-> "id"]
idFragment(value) == [selector |-> <<"#", value>>, type |-> "id"]
classFragment(value) == [selector |-> <<".", value>>, type |-> "class"]
attrFragment(value) == [selector |-> <<"[", value, "]">>, type |-> "attr"]
pseudoClassFragment(value) == [selector |-> <<":", value>>, type |-> "pseudoclass"]
pseudoElementFragment(value) == [selector |-> <<":", ":", value>>, type |-> "pseudoelement"]
combinatorFragment(c) == [selector |-> <<" ", c, " ">>, type |-> "combinator"]

RECURSIVE Join(_)
\* this.selectors.map((item) => item.selector).join('')
Join(frs) == IF frs = <<>> THEN <<>> ELSE Head(frs).selector \o Join(Tail(frs))

\* the array the receiver refers to after the call, had the methods not
\* ended with this.selectors = []
ThisSelectorsKept(old, fresh) == old

\* this.selectors = []: the array the receiver refers to after the call
ThisSelectorsAfter(old, fresh) == fresh

\* const copyThis = {}; Object.assign(copyThis, this);
\* copyThis.selectors.push(...pushed); this.selectors = []; return copyThis
\* copyThis.selectors is the receiver's array itself, which push changes
\* in place; the receiver then gets an array of its own, empty
PushAndReturn(r, op, value, pushed, a1, a2) ==
  LET copyThis == Cardinality(Objects)
      fresh == Len(arrs) + 1
      isStep == op \in StepMethods
  IN  /\ Cardinality(Objects) <= MaxObjects
      /\ sel' = [o \in Objects \cup {copyThis} |->
                   IF o = copyThis THEN sel[r]
                   ELSE IF o = r THEN ThisSelectorsAfter(sel[r], fresh)
                   ELSE sel[o]]
      /\ arrs' = Append([arrs EXCEPT ![sel[r]] = @ \o pushed], <<>>)
      /\ last' = [op |-> op, recv |-> r, value |-> value, before |-> Frags(r),
                  outcome |-> "returned", result |-> copyThis, str |-> <<>>,
                  first |-> (r = Facade \/ r \notin used),
                  s1 |-> a1, s2 |-> a2, nobj |-> Cardinality(Objects)]
      /\ used' = used \cup {r}
      /\ hist' = [o \in Objects \cup {copyThis} |->
                   IF o # copyThis THEN hist[o]
                   ELSE [steps |-> IF isStep
                                   THEN Append(hist[r].steps, <<op, value>>)
                                   ELSE <<>>,
                         chain |-> /\ isStep
                                   /\ hist[r].chain
                                   /\ (r = Facade \/ r \notin used)]]

\* throw new Error(...): nothing is returned, nothing has been changed
\* (neither check reads the value the method was called with)
Throw(r, op, error) ==
  /\ last' = [op |-> op, recv |-> r, value |-> "", before |-> Frags(r),
              outcome |-> error, result |-> -1, str |-> <<>>,
              first |-> (r = Facade \/ r \notin used),
              s1 |-> <<>>, s2 |-> <<>>, nobj |-> Cardinality(Objects)]
  /\ UNCHANGED <<sel, arrs, hist, used>>

\* the script is running: no Error has been thrown (none of the methods
\* catches one, and an Error nobody catches ends the script)
Running == last.outcome \in {"none", "returned"}

\* element(value): checkType('element'); checkOrder(1); ...
element ==
  \E r \in Objects :
    /\ Running
    /\ IF checkType(Frags(r), "element") THEN Throw(r, "element", "duplicate")
       ELSE IF checkOrder(Frags(r), 1) THEN Throw(r, "element", "order")
       ELSE \E value \in Values :
              PushAndReturn(r, "element", value, <<elementFragment(value)>>, <<>>, <<>>)

\* id(value): checkType('id'); checkOrder(2); ...
id ==
  \E r \in Objects :
    /\ Running
    /\ IF checkType(Frags(r), "id") THEN Throw(r, "id", "duplicate")
       ELSE IF checkOrder(Frags(r), 2) THEN Throw(r, "id", "order")
       ELSE \E value \in Values :
              PushAndReturn(r, "id", value, <<idFragment(value)>>, <<>>, <<>>)

\* class(value): checkOrder(3); ...
class ==
  \E r \in Objects :
    /\ Running
    /\ IF checkOrder(Frags(r), 3) THEN Throw(r, "class", "order")
       ELSE \E value \in Values :
              PushAndReturn(r, "class", value, <<classFragment(value)>>, <<>>, <<>>)

\* attr(value): checkOrder(4); ...
attr ==
  \E r \in Objects :
    /\ Running
    /\ IF checkOrder(Frags(r), 4) THEN Throw(r, "attr", "order")
       ELSE \E value \in Values :
              PushAndReturn(r, "attr", value, <<attrFragment(value)>>, <<>>, <<>>)

\* pseudoClass(value): checkOrder(5); ...
pseudoClass ==
  \E r \in Objects :
    /\ Running
    /\ IF checkOrder(Frags(r), 5) THEN Throw(r, "pseudoClass", "order")
       ELSE \E value \in Values :
              PushAndReturn(r, "pseudoClass", value, <<pseudoClassFragment(value)>>,
                            <<>>, <<>>)

\* pseudoElement(value): checkType('pseudoelement'); ...
pseudoElement ==
  \E r \in Objects :
    /\ Running
    /\ IF checkType(Frags(r), "pseudoelement")
       THEN Throw(r, "pseudoElement", "duplicate")
       ELSE \E value \in Values :
              PushAndReturn(r, "pseudoElement", value, <<pseudoElementFragment(value)>>,
                            <<>>, <<>>)

\* combine(selector1, combinator, selector2): the arguments of push are
\* evaluated before it changes the array
combine ==
  \E r \in Objects, selector1 \in Objects, selector2 \in Objects,
     combinator \in Combinators :
    /\ Running
    /\ PushAndReturn(r, "combine", combinator,
                     Frags(selector1) \o <<combinatorFragment(combinator)>>
                       \o Frags(selector2),
                     Frags(selector1), Frags(selector2))

\* stringify(): const result = ...join(''); this.selectors = []; return result
\* When the receiver alone referred to its array, nothing refers to that
\* array after the assignment: it is collected, and the new, empty array
\* is put at its address.
stringify ==
  \E r \in Objects :
    /\ Running
    /\ LET old == sel[r]
           next == ThisSelectorsAfter(old, Len(arrs) + 1)
           collected == next # old /\ ~\E o \in Objects \ {r} : sel[o] = old
       IN  IF collected
           THEN /\ sel' = sel
                /\ arrs' = [arrs EXCEPT ![old] = <<>>]
           ELSE /\ sel' = [sel EXCEPT ![r] = next]
                /\ arrs' = IF next = old THEN arrs ELSE Append(arrs, <<>>)
    /\ last' = [op |-> "stringify", recv |-> r, value |-> "", before |-> Frags(r),
                outcome |-> "returned", result |-> -1, str |-> Join(Frags(r)),
                first |-> (r = Facade \/ r \notin used),
                s1 |-> <<>>, s2 |-> <<>>, nobj |-> Cardinality(Objects)]
    /\ used' = used \cup {r}
    /\ UNCHANGED hist

BuilderNext ==
  \/ element /\ UNCHANGED <<tvars, cvars, mvars>>
  \/ id /\ UNCHANGED <<tvars, cvars, mvars>>
  \/ class /\ UNCHANGED <<tvars, cvars, mvars>>
  \/ attr /\ UNCHANGED <<tvars, cvars, mvars>>
  \/ pseudoClass /\ UNCHANGED <<tvars, cvars, mvars>>
  \/ pseudoElement /\ UNCHANGED <<tvars, cvars, mvars>>
  \/ combine /\ UNCHANGED <<tvars, cvars, mvars>>
  \/ stringify /\ UNCHANGED <<tvars, cvars, mvars>>

-----------------------------------------------------------------------------
(* sellTickets, objects-tasks.js 159-191 *)

Bills == {25, 50, 100}

\* JS truthiness of a number that is never NaN
Truthy(n) == n # 0

\* const payments = { 25: 0, 50: 0 }: the key 100 is absent
InitPayments == [b25 |-> 0, b50 |-> 0, b100 |-> "undefined"]

\* the test of a seller who never gives a 50 as change
Take50NeverCond(p) == FALSE

\* if (payments[50])
Take50Cond(p) == Truthy(p.b50)

\* the loop test, had it read while (rest > 0)
While25NoStockCond(r, p) == r > 0

\* while (rest > 0 && payments[25] > 0)
While25Cond(r, p) == r > 0 /\ p.b25 > 0

\* case 50: if (payments[25] === 0) return false
Case50Fails(p) == p.b25 = 0

\* case 100: let rest = 75
Case100 ==
  /\ pc = "loop"
  /\ i <= Len(queue)
  /\ queue[i] = 100
  /\ rest' = 75
  /\ pc' = "if50"
  /\ UNCHANGED <<queue, i, payments, ret>>

\* if (payments[50]) { rest -= 50; payments[50] -= 1 }
If50 ==
  /\ pc = "if50"
  /\ IF Take50Cond(payments)
     THEN /\ rest' = rest - 50
          /\ payments' = [payments EXCEPT !.b50 = @ - 1]
     ELSE UNCHANGED <<rest, payments>>
  /\ pc' = "while"
  /\ UNCHANGED <<queue, i, ret>>

\* one iteration of the while loop: rest -= 25; payments[25] -= 1
While25 ==
  /\ pc = "while"
  /\ While25Cond(rest, payments)
  /\ rest' = rest - 25
  /\ payments' = [payments EXCEPT !.b25 = @ - 1]
  /\ UNCHANGED <<queue, i, pc, ret>>

\* the loop is left: if (rest !== 0) return false
Return100False ==
  /\ pc = "while"
  /\ ~While25Cond(rest, payments)
  /\ rest # 0
  /\ ret' = FALSE
  /\ pc' = "done"
  /\ UNCHANGED <<queue, i, payments, rest>>

\* the loop is left with rest = 0: payments[queue[i]] += 1; break
\* (payments[100] is undefined, and undefined + 1 and NaN + 1 are NaN)
Served100 ==
  /\ pc = "while"
  /\ ~While25Cond(rest, payments)
  /\ rest = 0
  /\ payments' = [payments EXCEPT !.b100 = "NaN"]
  /\ i' = i + 1
  /\ pc' = "loop"
  /\ UNCHANGED <<queue, rest, ret>>

\* case 50 with no 25 in the till: return false
Return50False ==
  /\ pc = "loop"
  /\ i <= Len(queue)
  /\ queue[i] = 50
  /\ Case50Fails(payments)
  /\ ret' = FALSE
  /\ pc' = "done"
  /\ UNCHANGED <<queue, i, payments, rest>>

\* case 50: payments[25] -= 1; payments[50] += 1
Served50 ==
  /\ pc = "loop"
  /\ i <= Len(queue)
  /\ queue[i] = 50
  /\ ~Case50Fails(payments)
  /\ payments' = [payments EXCEPT !.b25 = @ - 1, !.b50 = @ + 1]
  /\ i' = i + 1
  /\ UNCHANGED <<queue, rest, pc, ret>>

\* default: payments[25] += 1
ServedDefault ==
  /\ pc = "loop"
  /\ i <= Len(queue)
  /\ queue[i] \notin {50, 100}
  /\ payments' = [payments EXCEPT !.b25 = @ + 1]
  /\ i' = i + 1
  /\ UNCHANGED <<queue, rest, pc, ret>>

\* the for loop ends: return true
ReturnTrue ==
  /\ pc = "loop"
  /\ i > Len(queue)
  /\ ret' = TRUE
  /\ pc' = "done"
  /\ UNCHANGED <<queue, i, payments, rest>>

TicketsNext ==
  \/ Case100 /\ UNCHANGED <<bvars, cvars, mvars>>
  \/ If50 /\ UNCHANGED <<bvars, cvars, mvars>>
  \/ While25 /\ UNCHANGED <<bvars, cvars, mvars>>
  \/ Return100False /\ UNCHANGED <<bvars, cvars, mvars>>
  \/ Served100 /\ UNCHANGED <<bvars, cvars, mvars>>
  \/ Return50False /\ UNCHANGED <<bvars, cvars, mvars>>
  \/ Served50 /\ UNCHANGED <<bvars, cvars, mvars>>
  \/ ServedDefault /\ UNCHANGED <<bvars, cvars, mvars>>
  \/ ReturnTrue /\ UNCHANGED <<bvars, cvars, mvars>>

-----------------------------------------------------------------------------
(* JavaScript values and objects, as far as the two functions need them *)

\* a value: a number, NaN, undefined, a function, or a string made of the
\* text of a function followed by the numbers in s
Num(n) == [t |-> "number", n |-> n, s |-> <<>>]
NaN == [t |-> "NaN", n |-> 0, s |-> <<>>]
Undefined == [t |-> "undefined", n |-> 0, s |-> <<>>]
Function == [t |-> "function", n |-> 0, s |-> <<>>]

\* the names Object.prototype defines, of which toString stands for all
PrototypeKeys == {"toString"}

\* an object literal: its own properties, a function from its keys to
\* their values
ObjectsOver(keys, values) == UNION {[ks -> values] : ks \in SUBSET keys}

\* obj[key]: the own property, else the one inherited from Object.prototype,
\* else undefined
Get(obj, key) ==
  IF key \in DOMAIN obj THEN obj[key]
  ELSE IF key \in PrototypeKeys THEN Function
  ELSE Undefined

\* x === y: NaN equals nothing, itself included
StrictEquals(x, y) == x.t # "NaN" /\ x = y

\* the truthiness of a value in a condition
ToBoolean(v) ==
  CASE v.t = "number" -> v.n # 0
    [] v.t \in {"NaN", "undefined"} -> FALSE
    [] v.t \in {"function", "string"} -> TRUE

\* v + w for a number w: the sum of two numbers; a function or a string is
\* turned into text and the number is appended to it
Plus(v, w) ==
  CASE v.t = "number" -> Num(v.n + w.n)
    [] v.t \in {"NaN", "undefined"} -> NaN
    [] v.t \in {"function", "string"} -> [t |-> "string", n |-> 0, s |-> Append(v.s, w.n)]

-----------------------------------------------------------------------------
(* compareObjects, objects-tasks.js 83-88 *)

CompareKeys == {"x", "y"}
CompareValues == {Num(n) : n \in 1..MaxNumber} \cup {Undefined, NaN}

\* keyA.length !== keyB.length ? false : keyA.every(key => obj1[key] === obj2[key])
compareObjects(obj1, obj2) ==
  IF Cardinality(DOMAIN obj1) # Cardinality(DOMAIN obj2) THEN FALSE
  ELSE \A key \in DOMAIN obj1 : StrictEquals(Get(obj1, key), Get(obj2, key))

\* a call compareObjects(x, y) with x and y among the two objects
CallCompare ==
  \E x \in {"a", "b"}, y \in {"a", "b"} :
    /\ <<x, y>> \notin DOMAIN cmp
    /\ LET arg(z) == IF z = "a" THEN objA ELSE objB
       IN  cmp' = [c \in DOMAIN cmp \cup {<<x, y>>} |->
                     IF c = <<x, y>> THEN compareObjects(arg(x), arg(y)) ELSE cmp[c]]
    /\ UNCHANGED <<objA, objB>>

-----------------------------------------------------------------------------
(* mergeObjects, objects-tasks.js 36-48 *)

MergeKeys == {"a", "toString"}
MergeValues == {Num(n) : n \in (-MaxAbs)..MaxAbs}

\* if (mergedObj[key]) mergedObj[key] += value; else mergedObj[key] = value
MergeEntry(merged, key, value) ==
  LET new == IF ToBoolean(Get(merged, key)) THEN Plus(Get(merged, key), value)
             ELSE value
  IN  [k \in DOMAIN merged \cup {key} |-> IF k = key THEN new ELSE merged[k]]

RECURSIVE MergeEntries(_, _, _)
\* Object.entries(obj).forEach(...) over the keys ks still to come; the keys
\* of one object differ, so the order they come in changes no value
MergeEntries(merged, obj, ks) ==
  IF ks = {} THEN merged
  ELSE LET key == CHOOSE k \in ks : TRUE
       IN  MergeEntries(MergeEntry(merged, key, obj[key]), obj, ks \ {key})

\* one turn of objects.forEach
MergeObject ==
  /\ mpc = "forEach"
  /\ mi <= Len(objects)
  /\ mergedObj' = MergeEntries(mergedObj, objects[mi], DOMAIN objects[mi])
  /\ mi' = mi + 1
  /\ UNCHANGED <<objects, mpc, mret>>

\* return mergedObj
MergeReturn ==
  /\ mpc = "forEach"
  /\ mi > Len(objects)
  /\ mret' = mergedObj
  /\ mpc' = "done"
  /\ UNCHANGED <<objects, mergedObj, mi>>

-----------------------------------------------------------------------------
(* Specifications *)

CompareNext ==
  \/ CallCompare /\ UNCHANGED <<tvars, bvars, mvars>>

MergeNext ==
  \/ MergeObject /\ UNCHANGED <<tvars, bvars, cvars>>
  \/ MergeReturn /\ UNCHANGED <<tvars, bvars, cvars>>

\* sellTickets is called with a queue: const payments = { 25: 0, 50: 0 };
\* the other three are not called
TicketsInit ==
  /\ queue \in SeqsUpTo(Bills, MaxQueue)
  /\ i = 1
  /\ payments = InitPayments
  /\ rest = 0
  /\ pc = "loop"
  /\ ret = "none"
  /\ sel = (Facade :> 1)
  /\ arrs = <<<<>>>>
  /\ last = NoCall
  /\ used = {}
  /\ hist = (Facade :> [steps |-> <<>>, chain |-> TRUE])
  /\ objA = <<>>
  /\ objB = <<>>
  /\ cmp = <<>>
  /\ objects = <<>>
  /\ mergedObj = <<>>
  /\ mi = 1
  /\ mpc = "idle"
  /\ mret = <<>>

\* the module is loaded: selectors: [] of the facade, nothing called yet
BuilderInit ==
  /\ sel = (Facade :> 1)
  /\ arrs = <<<<>>>>
  /\ last = NoCall
  /\ used = {}
  /\ hist = (Facade :> [steps |-> <<>>, chain |-> TRUE])
  /\ queue = <<>>
  /\ i = 1
  /\ payments = InitPayments
  /\ rest = 0
  /\ pc = "idle"
  /\ ret = "none"
  /\ objA = <<>>
  /\ objB = <<>>
  /\ cmp = <<>>
  /\ objects = <<>>
  /\ mergedObj = <<>>
  /\ mi = 1
  /\ mpc = "idle"
  /\ mret = <<>>

\* compareObjects is about to be called with two of the objects
CompareInit ==
  /\ objA \in ObjectsOver(CompareKeys, CompareValues)
  /\ objB \in ObjectsOver(CompareKeys, CompareValues)
  /\ cmp = <<>>
  /\ queue = <<>>
  /\ i = 1
  /\ payments = InitPayments
  /\ rest = 0
  /\ pc = "idle"
  /\ ret = "none"
  /\ sel = (Facade :> 1)
  /\ arrs = <<<<>>>>
  /\ last = NoCall
  /\ used = {}
  /\ hist = (Facade :> [steps |-> <<>>, chain |-> TRUE])
  /\ objects = <<>>
  /\ mergedObj = <<>>
  /\ mi = 1
  /\ mpc = "idle"
  /\ mret = <<>>

\* mergeObjects is called with a list of objects: const mergedObj = {}
MergeInit ==
  /\ objects \in SeqsUpTo(ObjectsOver(MergeKeys, MergeValues), MaxList)
  /\ mergedObj = <<>>
  /\ mi = 1
  /\ mpc = "forEach"
  /\ mret = <<>>
  /\ queue = <<>>
  /\ i = 1
  /\ payments = InitPayments
  /\ rest = 0
  /\ pc = "idle"
  /\ ret = "none"
  /\ sel = (Facade :> 1)
  /\ arrs = <<<<>>>>
  /\ last = NoCall
  /\ used = {}
  /\ hist = (Facade :> [steps |-> <<>>, chain |-> TRUE])
  /\ objA = <<>>
  /\ objB = <<>>
  /\ cmp = <<>>

SpecTickets == TicketsInit /\ [][TicketsNext]_vars

SpecBuilder == BuilderInit /\ [][BuilderNext]_vars

SpecCompare == CompareInit /\ [][CompareNext]_vars

SpecMerge == MergeInit /\ [][MergeNext]_vars

-----------------------------------------------------------------------------
(* The builder's contract, in the words of the specification *)

\* the kind of fragment a step method adds
KindOf(op) ==
  CASE op = "element" -> "element"
    [] op = "id" -> "id"
    [] op = "class" -> "class"
    [] op = "attr" -> "attr"
    [] op = "pseudoClass" -> "pseudoclass"
    [] op = "pseudoElement" -> "pseudoelement"

\* the place of a kind in the fixed order element, id, class, attribute,
\* pseudo-class, pseudo-element; a combinator has none
Rank(type) ==
  CASE type = "element" -> 1
    [] type = "id" -> 2
    [] type = "class" -> 3
    [] type = "attr" -> 4
    [] type = "pseudoclass" -> 5
    [] type = "pseudoelement" -> 6
    [] OTHER -> 0

\* frs holds a fragment whose kind comes later than the kind op adds
HoldsLater(frs, op) == \E j \in DOMAIN frs : Rank(frs[j].type) > Rank(KindOf(op))

\* frs holds a fragment of the kind op adds
HoldsSame(frs, op) == \E j \in DOMAIN frs : frs[j].type = KindOf(op)

Count(frs, type) == Cardinality({j \in DOMAIN frs : frs[j].type = type})

\* the text of a fragment: element as given, id prefixed '#', class '.',
\* attribute wrapped in '[' ']', pseudo-class ':', pseudo-element '::'
ExpectedText(op, value) ==
  CASE op = "element" -> <<value>>
    [] op = "id" -> <<"#", value>>
    [] op = "class" -> <<".", value>>
    [] op = "attr" -> <<"[", value, "]">>
    [] op = "pseudoClass" -> <<":", value>>
    [] op = "pseudoElement" -> <<":", ":", value>>

RECURSIVE ExpectedSelector(_)
\* the texts of the steps <<op, value>>, concatenated in call order
ExpectedSelector(steps) ==
  IF steps = <<>> THEN <<>>
  ELSE ExpectedText(Head(steps)[1], Head(steps)[2]) \o ExpectedSelector(Tail(steps))

\* the fragment the code's step method op pushes
FragmentOf(op, value) ==
  CASE op = "element" -> elementFragment(value)
    [] op = "id" -> idFragment(value)
    [] op = "class" -> classFragment(value)
    [] op = "attr" -> attrFragment(value)
    [] op = "pseudoClass" -> pseudoClassFragment(value)
    [] op = "pseudoElement" -> pseudoElementFragment(value)

\* the fragments of a chain built with nothing else going on
BuiltAlone(steps) == [k \in 1..Len(steps) |-> FragmentOf(steps[k][1], steps[k][2])]

LastIsStep == last.op \in StepMethods

\* C2, as stated: a step method called on a list that holds a later kind
\* fails with the ordering error and returns no builder.
C2_AlwaysOrderError ==
  (LastIsStep /\ HoldsLater(last.before, last.op))
    => (last.outcome = "order" /\ last.result = -1)

\* C2, amended: a step method called on a list that holds a later kind
\* fails and returns no builder, and leaves the receiver as it was; the
\* error is the ordering error, except that element() and id() fail with
\* the duplicate error when the list also holds a fragment of their kind.
C2_OrderOrDuplicateError ==
  (LastIsStep /\ HoldsLater(last.before, last.op))
    => /\ last.outcome =
            IF last.op \in {"element", "id"} /\ HoldsSame(last.before, last.op)
            THEN "duplicate" ELSE "order"
       /\ last.result = -1
       /\ Cardinality(Objects) = last.nobj
       /\ Frags(last.recv) = last.before

\* C2 witness: a call has failed with the ordering error.
C2_Witness ==
  /\ LastIsStep
  /\ HoldsLater(last.before, last.op)
  /\ last.outcome = "order"

\* C3: element(), id() and pseudoElement() fail with the duplicate error on
\* a list that holds their kind; class(), attr() and pseudoClass() never
\* do, and succeed on a list that holds their kind and no later one; a list
\* built by step methods alone (one without a combinator) holds at most
\* one element, one id and one pseudo-element.
C3_AtMostOnce ==
  /\ (last.op \in {"element", "id", "pseudoElement"} /\ HoldsSame(last.before, last.op))
       => (last.outcome = "duplicate" /\ last.result = -1)
  /\ last.op \in {"class", "attr", "pseudoClass"}
       => /\ last.outcome # "duplicate"
          /\ (HoldsSame(last.before, last.op) /\ ~HoldsLater(last.before, last.op))
               => last.outcome = "returned"
  /\ \A o \in Objects :
       Count(Frags(o), "combinator") = 0
         => \A type \in {"element", "id", "pseudoelement"} : Count(Frags(o), type) <= 1

\* C3 witness: a call has failed with the duplicate error.
C3_Witness ==
  /\ last.op \in {"element", "id", "pseudoElement"}
  /\ HoldsSame(last.before, last.op)
  /\ last.outcome = "duplicate"

\* C4: a step call that does not fail returns a new object whose list is
\* the receiver's list at the time of the call followed by the one new
\* fragment, and stringify() at the end of a chain from the facade yields
\* the texts of its steps concatenated in call order.
C4_AppendAndStringify ==
  /\ (LastIsStep /\ last.outcome = "returned")
       => /\ last.result \in Objects \ (0..(last.nobj - 1))
          /\ Frags(last.result) =
               last.before \o <<[selector |-> ExpectedText(last.op, last.value),
                                 type |-> KindOf(last.op)]>>
  /\ (last.op = "stringify" /\ hist[last.recv].chain /\ last.first)
       => last.str = ExpectedSelector(hist[last.recv].steps)

\* C4 witness: stringify() has been called at the end of a chain of two
\* steps.
C4_Witness ==
  /\ last.op = "stringify"
  /\ hist[last.recv].chain
  /\ last.first
  /\ Len(hist[last.recv].steps) = 2
  /\ last.str # <<>>

\* C5: an operation invoked on a builder leaves that builder's fragment
\* list as it was before the call.
C5_ReceiverUnchanged ==
  last.op # "none" => Frags(last.recv) = last.before

\* C6: combine(s1, c, s2), on whatever builder, returns a builder whose
\* list is s1's fragments, the combinator ' c ', then s2's fragments.
C6_CombineConcatenates ==
  (last.op = "combine" /\ last.outcome = "returned")
    => Frags(last.result) =
         last.s1 \o <<[selector |-> <<" ", last.value, " ">>, type |-> "combinator"]>>
           \o last.s2

\* C9: no two objects refer to the same array, the facade's list is empty
\* after every operation, and a chain whose instances are each used once
\* holds the fragments, and stringifies to the text, it has when built
\* with nothing else going on.
C9_ChainsIndependent ==
  /\ \A o1, o2 \in Objects : o1 # o2 => sel[o1] # sel[o2]
  /\ Frags(Facade) = <<>>
  /\ \A o \in Objects :
       (hist[o].chain /\ o \notin used) => Frags(o) = BuiltAlone(hist[o].steps)
  /\ (last.op = "stringify" /\ hist[last.recv].chain /\ last.first)
       => last.str = Join(BuiltAlone(hist[last.recv].steps))

\* C9 witness: two chains were started from the facade, and the first was
\* stringified after the second was started.
C9_Witness ==
  /\ {1, 2} \subseteq Objects
  /\ hist[1].chain /\ Len(hist[1].steps) = 1
  /\ hist[2].chain /\ Len(hist[2].steps) = 1
  /\ last.op = "stringify" /\ last.recv = 1 /\ last.first
  /\ last.str # <<>>
  /\ 2 \notin used

-----------------------------------------------------------------------------
(* The seller's task: what the seller could do at best, from the task's statement (doc        *)
(* comment 145-158): the ticket costs 25, the change is bill - 25, paid    *)
(* out of the bills held in the till at that moment.                       *)

\* the tills [n25, n50] the seller can be left with after one customer
ServeAny(till, bill) ==
  IF bill = 25 THEN {[n25 |-> till.n25 + 1, n50 |-> till.n50]}
  ELSE IF bill = 50
  THEN {[n25 |-> till.n25 - 1, n50 |-> till.n50 + 1] : x \in {t \in {till} : t.n25 >= 1}}
  ELSE {[n25 |-> till.n25 - k25, n50 |-> till.n50 - k50] :
          <<k25, k50>> \in {c \in (0..3) \X (0..1) :
                              /\ 25 * c[1] + 50 * c[2] = 75
                              /\ c[1] <= till.n25
                              /\ c[2] <= till.n50}}

RECURSIVE TillsAfter(_, _)
\* the tills the seller can hold after the first n customers of q
TillsAfter(q, n) ==
  IF n = 0 THEN {[n25 |-> 0, n50 |-> 0]}
  ELSE UNION {ServeAny(t, q[n]) : t \in TillsAfter(q, n - 1)}

CanServeAll(q) == TillsAfter(q, Len(q)) # {}

\* C1: sellTickets returns true exactly when some choice of change serves
\* every customer of the queue in order, and false otherwise.
C1_GreedyIsExact ==
  pc = "done" => /\ ret \in BOOLEAN
                 /\ ret = CanServeAll(queue)

\* C1 witness: a queue served to the end in which a 100 was changed while
\* the till held a 50 and three 25s, so that the seller had a choice.
C1_Witness ==
  /\ pc = "done"
  /\ ret = TRUE
  /\ \E k \in 1..Len(queue) :
       /\ queue[k] = 100
       /\ \E t \in TillsAfter(queue, k - 1) : t.n25 >= 3 /\ t.n50 >= 1

\* C10: the till never holds a negative number of 25s or of 50s, at any
\* point of the scan, the returning step included.
C10_TillNonNegative ==
  /\ payments.b25 >= 0
  /\ payments.b50 >= 0

\* C10 witness: sellTickets returns false right after it took the last 50
\* out of the till and found no 25 to go with it.
C10_Witness ==
  /\ pc = "done"
  /\ ret = FALSE
  /\ rest = 25
  /\ payments.b25 = 0
  /\ payments.b50 = 0

-----------------------------------------------------------------------------
(* The contracts of compareObjects and mergeObjects *)

Called(x, y) == <<x, y>> \in DOMAIN cmp

\* C7: compareObjects(a, a) is true, compareObjects(a, b) and
\* compareObjects(b, a) agree, and compareObjects(a, b) is false when a and
\* b differ in their number of keys.
C7_ReflexiveSymmetric ==
  /\ Called("a", "a") => cmp[<<"a", "a">>] = TRUE
  /\ (Called("a", "b") /\ Called("b", "a")) => cmp[<<"a", "b">>] = cmp[<<"b", "a">>]
  /\ (Called("a", "b") /\ Cardinality(DOMAIN objA) # Cardinality(DOMAIN objB))
       => cmp[<<"a", "b">>] = FALSE

\* C7, its second part alone: the two orders of the arguments agree.
C7_Symmetric ==
  (Called("a", "b") /\ Called("b", "a")) => cmp[<<"a", "b">>] = cmp[<<"b", "a">>]

RECURSIVE SumOver(_, _, _)
\* the sum of the values at key of the first n objects of objs that have it
SumOver(objs, key, n) ==
  IF n = 0 THEN 0
  ELSE SumOver(objs, key, n - 1)
         + (IF key \in DOMAIN objs[n] THEN objs[n][key].n ELSE 0)

KeysOf(objs) == UNION {DOMAIN objs[k] : k \in DOMAIN objs}

\* C8: mergeObjects returns an object whose keys are the keys of the
\* inputs and whose value at each key is the sum of the inputs' values
\* at that key.
C8_MergeSums ==
  mpc = "done"
    => /\ DOMAIN mret = KeysOf(objects)
       /\ \A key \in DOMAIN mret : mret[key] = Num(SumOver(objects, key, Len(objects)))

\* What does hold of mergeObjects: the keys are those of the inputs, and
\* the value is the sum at every key that Object.prototype does not define.
MergeSumsOwnKeys ==
  mpc = "done"
    => /\ DOMAIN mret = KeysOf(objects)
       /\ \A key \in DOMAIN mret \ PrototypeKeys :
            mret[key] = Num(SumOver(objects, key, Len(objects)))

====
